---------------------------- MODULE Spec2Model ----------------------------
(***************************************************************************)
(* A model of src/src/weaverbird/session/session.ts: the Session object,   *)
(* its phase states, and its asynchronous operations.  Every `await` of an *)
(* async method is a point where another operation of the same session may *)
(* run, so each async method is a small process whose steps are the code   *)
(* between two awaits.  Synchronous methods are single steps.              *)
(*                                                                         *)
(* The state classes (sessionState.ts), the retry limits (limits.ts) and   *)
(* the backend client are not part of the sources at hand; what they do is *)
(* modelled as the environment's free choice, within the phases the        *)
(* specification names.                                                    *)
(***************************************************************************)
EXTENDS Integers, Sequences, FiniteSets, TLC

(***************************************************************************)
(* Bounds of the model.                                                    *)
(***************************************************************************)
\* calls of send over the session's life
MaxSends == 2
\* calls of setupConversation over the session's life
MaxSetups == 2
\* calls of acceptChanges over the session's life
MaxAccepts == 1
\* calls of decreaseRetries that change a counter
MaxDecreases == 4
\* calls of the asynchronous methods in flight at a time
MaxInFlight == 2

\* limits.ts: the value both counters start from
approachRetryLimit == 3
codeGenRetryLimit == 3

Msgs == {"", "m1", "m2"}
\* the approach texts: what a backend answer carries, what a user edit
\* leaves, what a successor state is constructed with
Answers == {"p1"}
Edits == {"p2"}
Constructed == {""}

SendSlots == 1..MaxSends
SetupSlots == 1..MaxSetups
AcceptSlots == 1..MaxAccepts
\* the state objects alive at a time: the current one, the one being
\* installed, and per send in flight the one interacting and its successor
Refs == 1..(2 + 2 * MaxSends)

(***************************************************************************)
(* Paths: path.isAbsolute, path.join, path.dirname on POSIX paths, a path  *)
(* being its segments and whether it starts at the root.                   *)
(***************************************************************************)
Path(abs, segs) == [abs |-> abs, segs |-> segs]

workspaceRoot == Path(TRUE, <<"ws">>)

isAbsolute(p) == p.abs

Front(s) == SubSeq(s, 1, Len(s) - 1)

\* path.normalize on the segments: ".." removes the segment before it; at
\* the root it is dropped, at the start of a relative path it is kept
RECURSIVE NormalizeSegs(_, _, _)
NormalizeSegs(abs, done, rest) ==
  IF rest = << >> THEN done
  ELSE IF Head(rest) = ".."
       THEN IF done # << >> /\ done[Len(done)] # ".."
            THEN NormalizeSegs(abs, Front(done), Tail(rest))
            ELSE IF abs THEN NormalizeSegs(abs, done, Tail(rest))
                 ELSE NormalizeSegs(abs, Append(done, ".."), Tail(rest))
       ELSE NormalizeSegs(abs, Append(done, Head(rest)), Tail(rest))

join(a, b) == Path(a.abs, NormalizeSegs(a.abs, << >>, a.segs \o b.segs))

dirname(p) == Path(p.abs, Front(p.segs))

\* the file paths a code generation may leave in its state
RelA == Path(FALSE, <<"src", "a.ts">>)
AbsB == Path(TRUE, <<"out", "b.ts">>)
RelUp == Path(FALSE, <<"src", "..", "c.ts">>)
FilePathChoices == { <<RelA>>, <<AbsB, RelUp>> }

\* the session's virtual file system: the bytes stored for a path
VfsBytes(p) ==
  IF p = RelA THEN <<104, 105>>
  ELSE IF p = AbsB THEN <<111, 255>>
  ELSE <<107>>

\* new TextDecoder().decode on single-byte input: ASCII maps to itself, a
\* byte that is no UTF-8 sequence of its own decodes to U+FFFD
TextDecode(bytes) ==
  [i \in DOMAIN bytes |-> IF bytes[i] < 128 THEN bytes[i] ELSE 65533]

(***************************************************************************)
(* The session.                                                            *)
(***************************************************************************)
VARIABLES
  objs,             \* the state objects, by identity
  state,            \* _state: the identity of the current state object
  task,             \* task
  approach,         \* approach
  conversationId,   \* _conversationId (0: undefined)
  uploadId,         \* _uploadId (0: undefined)
  approachRetries,
  codeGenRetries,
  sends,            \* the calls of send in flight
  setups,           \* the calls of setupConversation in flight
  accepts,          \* the calls of acceptChanges in flight
  last              \* the step just taken, and what it returned

vars == <<objs, state, task, approach, conversationId, uploadId,
          approachRetries, codeGenRetries, sends, setups, accepts, last>>

session == <<state, task, approach, conversationId, uploadId,
             approachRetries, codeGenRetries>>

Kinds == {"ConversationNotStarted", "Refinement", "CodeGen"}

\* the phase a state of each class reports
PhaseOf(kind) ==
  CASE kind = "Refinement" -> "Approach"
    [] kind = "CodeGen" -> "Codegen"
    [] OTHER -> "None"

\* a state object as its constructor leaves it
NewState(kind, cfgConv, cfgUpload, appr) ==
  [kind |-> kind, phase |-> PhaseOf(kind), approach |-> appr,
   cancelled |-> FALSE, conversationId |-> cfgConv, uploadId |-> cfgUpload,
   hasFilePaths |-> FALSE, filePaths |-> << >>]

\* this.state.filePaths ?? []
FilePathsOf(o) == IF o.hasFilePaths THEN o.filePaths ELSE << >>

\* An identity no state object holds.  A state object that neither the
\* session nor a call in flight refers to is read by nothing: its identity
\* is free again.
Free == NewState("free", 0, 0, "")

Collect(os, cur, calls) ==
  LET live == {cur} \cup {calls[i].target : i \in DOMAIN calls}
                    \cup {calls[i].next : i \in DOMAIN calls}
  IN [n \in DOMAIN os |-> IF n \in live THEN os[n] ELSE Free]

\* the identity a newly constructed state object gets
Fresh(os) == CHOOSE n \in DOMAIN os :
               /\ os[n] = Free
               /\ \A m \in DOMAIN os : m < n => os[m] # Free

\* what `last` records of a step: the operation, its call, the error it
\* threw ("" for none), whether the state object it replaced had its token
\* source cancelled, and what it returned or wrote
Event(op, call, err, leftCancelled, result) ==
  [op |-> op, call |-> call, err |-> err, leftCancelled |-> leftCancelled,
   result |-> result]

IdleSend == [pc |-> "idle", msg |-> "", target |-> 0, next |-> 0]
IdleSetup == [pc |-> "idle", conv |-> 0, urlConv |-> 0, calls |-> << >>]
IdleAccept == [pc |-> "idle", paths |-> << >>, i |-> 0, log |-> << >>]
\* a call that has returned or thrown
DoneSend == [IdleSend EXCEPT !.pc = "done"]
DoneSetup == [IdleSetup EXCEPT !.pc = "done"]
DoneAccept == [IdleAccept EXCEPT !.pc = "done"]

\* constructor
Init ==
  /\ objs = [n \in Refs |-> IF n = 1 THEN NewState("ConversationNotStarted", 0, 0, "")
                            ELSE Free]
  /\ state = 1
  /\ task = ""
  /\ approach = ""
  /\ conversationId = 0
  /\ uploadId = 0
  /\ approachRetries = approachRetryLimit
  /\ codeGenRetries = codeGenRetryLimit
  /\ sends = [i \in SendSlots |-> IdleSend]
  /\ setups = [j \in SetupSlots |-> IdleSetup]
  /\ accepts = [k \in AcceptSlots |-> IdleAccept]
  /\ last = Event("constructor", 0, "", FALSE, << >>)

Running(calls) == {i \in DOMAIN calls : calls[i].pc \notin {"idle", "done"}}

InFlight == Cardinality(Running(sends)) + Cardinality(Running(setups))
              + Cardinality(Running(accepts))

\* the calls are numbered in the order they are made
CanStart(calls, i) ==
  /\ calls[i].pc = "idle"
  /\ \A h \in DOMAIN calls : h < i => calls[h].pc # "idle"
  /\ InFlight < MaxInFlight

(***************************************************************************)
(* send and nextInteraction                                                *)
(***************************************************************************)
MutTaskIsLatestMessage(t, msg) == IF msg = "" THEN t ELSE msg

\* send, lines 93-95: the task is the message while no task is set
TaskAfterSend(t, msg) == IF t = "" THEN msg ELSE t

\* send(msg) up to the await of collectFiles
SendStart(i, msg) ==
  /\ CanStart(sends, i)
  /\ task' = TaskAfterSend(task, msg)
  /\ sends' = [sends EXCEPT ![i] = [@ EXCEPT !.pc = "collectFiles", !.msg = msg]]
  /\ last' = Event("send", i, "", FALSE, msg)
  /\ UNCHANGED <<objs, state, approach, conversationId, uploadId,
                 approachRetries, codeGenRetries, setups, accepts>>

\* line 105: the task handed to interact
InteractTask(t, msg) == t

\* collectFiles has resolved: this.state.interact({files, task, msg, ...})
\* is called on the state that is current now, with the task as it is now
InteractStart(i) ==
  /\ sends[i].pc = "collectFiles"
  /\ sends' = [sends EXCEPT ![i] = [@ EXCEPT !.pc = "interact", !.target = state,
                                               !.msg = ""]]
  /\ last' = Event("interact", i, "", FALSE,
                   [target |-> state, task |-> InteractTask(task, sends[i].msg),
                    msg |-> sends[i].msg])
  /\ UNCHANGED <<objs, session, setups, accepts>>

\* the successor classes a state of each class may hand back
NextKinds(kind) ==
  CASE kind = "ConversationNotStarted" -> {"Refinement"}
    [] kind = "Refinement" -> {"Refinement", "CodeGen"}
    [] OTHER -> {"CodeGen"}

\* during the interaction the state rewrites its own approach with the
\* backend's answer
InteractAnswers(i) ==
  /\ sends[i].pc = "interact"
  /\ \E a \in Answers :
       /\ objs[sends[i].target].approach # a
       /\ objs' = [objs EXCEPT ![sends[i].target] = [@ EXCEPT !.approach = a]]
  /\ last' = Event("answer", i, "", FALSE, << >>)
  /\ UNCHANGED <<session, sends, setups, accepts>>

\* during the interaction a code generation stores the paths of its files
InteractWritesPaths(i) ==
  /\ sends[i].pc = "interact"
  /\ objs[sends[i].target].kind = "CodeGen"
  /\ \E fp \in FilePathChoices :
       /\ FilePathsOf(objs[sends[i].target]) # fp
       /\ objs' = [objs EXCEPT ![sends[i].target] = [@ EXCEPT !.hasFilePaths = TRUE,
                                                              !.filePaths = fp]]
  /\ last' = Event("filePaths", i, "", FALSE, << >>)
  /\ UNCHANGED <<session, sends, setups, accepts>>

\* the interaction resolves with no nextState
InteractReturnsSame(i) ==
  /\ sends[i].pc = "interact"
  /\ sends' = [sends EXCEPT ![i] = [@ EXCEPT !.pc = "responded", !.next = 0]]
  /\ last' = Event("response", i, "", FALSE, << >>)
  /\ UNCHANGED <<objs, session, setups, accepts>>

\* the interaction resolves with a nextState the state has just constructed
InteractReturnsNext(i) ==
  /\ sends[i].pc = "interact"
  /\ LET t == sends[i].target
         n == Fresh(objs)
     IN /\ \E k \in NextKinds(objs[t].kind) :
           \E na \in Constructed :
             objs' = [objs EXCEPT ![n] = NewState(k, objs[t].conversationId,
                                                  objs[t].uploadId, na)]
        /\ sends' = [sends EXCEPT ![i] = [@ EXCEPT !.pc = "responded", !.next = n]]
  /\ last' = Event("response", i, "", FALSE, << >>)
  /\ UNCHANGED <<session, setups, accepts>>

\* collectFiles or interact rejects: send rejects, the session is as it was
SendThrows(i) ==
  /\ sends[i].pc \in {"collectFiles", "interact"}
  /\ sends' = [sends EXCEPT ![i] = DoneSend]
  /\ objs' = Collect(objs, state, sends')
  /\ last' = Event("sendFailed", i, "rejected", FALSE, << >>)
  /\ UNCHANGED <<session, setups, accepts>>

\* lines 111-124 computed as the plausible slips would compute them
MutInstallBeforeCancel(os, cur, nxt, appr) ==
  IF nxt # 0
  THEN LET newApproach == os[cur].approach
       IN [objs |-> [os EXCEPT ![nxt] = [@ EXCEPT !.cancelled = TRUE,
                                                    !.approach = newApproach]],
           state |-> nxt, approach |-> newApproach, cancelled |-> nxt]
  ELSE [objs |-> os, state |-> cur, approach |-> appr, cancelled |-> 0]

MutKeepsSuccessorApproach(os, cur, nxt, appr) ==
  IF nxt # 0
  THEN [objs |-> [os EXCEPT ![cur] = [@ EXCEPT !.cancelled = TRUE]],
        state |-> nxt, approach |-> os[cur].approach, cancelled |-> cur]
  ELSE [objs |-> os, state |-> cur, approach |-> appr, cancelled |-> 0]

MutCancelsAlways(os, cur, nxt, appr) ==
  LET cancelledOs == [os EXCEPT ![cur] = [@ EXCEPT !.cancelled = TRUE]]
  IN IF nxt # 0
     THEN LET newApproach == os[cur].approach
          IN [objs |-> [cancelledOs EXCEPT ![nxt] = [@ EXCEPT !.approach = newApproach]],
              state |-> nxt, approach |-> newApproach, cancelled |-> cur]
     ELSE [objs |-> cancelledOs, state |-> cur, approach |-> appr, cancelled |-> cur]

\* nextInteraction, lines 111-124, on the state objects os, the current
\* state cur, the response's nextState nxt (0: none) and this.approach;
\* cancelled is the state object whose tokenSource.cancel() was called
\* (0: none)
AfterInteract(os, cur, nxt, appr) ==
  IF nxt # 0
  THEN LET newApproach == os[cur].approach
           cancelledOs == [os EXCEPT ![cur] = [@ EXCEPT !.cancelled = TRUE]]
       IN [objs |-> [cancelledOs EXCEPT ![nxt] = [@ EXCEPT !.approach = newApproach]],
           state |-> nxt, approach |-> newApproach, cancelled |-> cur]
  ELSE [objs |-> os, state |-> cur, approach |-> appr, cancelled |-> 0]

\* nextInteraction after the await of interact, to the return of send
SendResume(i) ==
  /\ sends[i].pc = "responded"
  /\ sends' = [sends EXCEPT ![i] = DoneSend]
  /\ LET r == AfterInteract(objs, state, sends[i].next, approach) IN
       /\ objs' = Collect(r.objs, r.state, sends')
       /\ state' = r.state
       /\ approach' = r.approach
       /\ last' = Event(IF sends[i].next # 0 THEN "sendReturnNext" ELSE "sendReturn",
                        i, "", r.objs[state].cancelled,
                        [cancelled |-> r.cancelled])
  /\ UNCHANGED <<task, conversationId, uploadId, approachRetries, codeGenRetries,
                 setups, accepts>>

\* the user edits the approach shown for the current state
EditApproach(a) ==
  /\ objs[state].approach # a
  /\ objs' = [objs EXCEPT ![state] = [@ EXCEPT !.approach = a]]
  /\ last' = Event("editApproach", 0, "", FALSE, << >>)
  /\ UNCHANGED <<session, sends, setups, accepts>>

(***************************************************************************)
(* setupConversation, getSessionStateConfig, initCodegen                   *)
(***************************************************************************)
\* the getters conversationId and uploadId throw on an identifier that is
\* undefined; getSessionStateConfig reads conversationId first
MutConfigReadsFieldsUnchecked(conv, upload) ==
  [err |-> "", conversationId |-> conv, uploadId |-> upload]

MutConfigOmitsUploadId(conv, upload) ==
  IF conv = 0
  THEN [err |-> "ConversationIdNotFoundError", conversationId |-> 0, uploadId |-> 0]
  ELSE [err |-> "", conversationId |-> conv, uploadId |-> 0]

getSessionStateConfig(conv, upload) ==
  IF conv = 0
  THEN [err |-> "ConversationIdNotFoundError", conversationId |-> 0, uploadId |-> 0]
  ELSE IF upload = 0
       THEN [err |-> "UploadId should be initialized before it's read",
             conversationId |-> 0, uploadId |-> 0]
       ELSE [err |-> "", conversationId |-> conv, uploadId |-> upload]

\* setupConversation up to the await of createConversation
SetupStart(j) ==
  /\ CanStart(setups, j)
  /\ setups' = [setups EXCEPT ![j] = [@ EXCEPT !.pc = "createConversation",
                                               !.calls = <<"createConversation">>]]
  /\ last' = Event("setupConversation", j, "", FALSE, << >>)
  /\ UNCHANGED <<objs, session, sends, accepts>>

\* line 47 is assigned; lines 49-50 await getSourceCodePath and
\* prepareRepoData, which read nothing of the session but config.  The
\* backend hands every call an identifier of its own.
SetupConversationCreated(j) ==
  /\ setups[j].pc = "createConversation"
  /\ conversationId' = j
  /\ setups' = [setups EXCEPT ![j] = [@ EXCEPT !.pc = "prepareRepoData", !.conv = j]]
  /\ last' = Event("conversationCreated", j, "", FALSE, << >>)
  /\ UNCHANGED <<objs, state, task, approach, uploadId, approachRetries,
                 codeGenRetries, sends, accepts>>

\* the conversation id line 52 passes to createUploadUrl: the session's
\* field, not the value line 47 received
UploadUrlConversation(sessionConv, obtained) == sessionConv

\* line 52: createUploadUrl(this._conversationId, zipFileChecksum) is called
SetupRepoPrepared(j) ==
  /\ setups[j].pc = "prepareRepoData"
  /\ setups' = [setups EXCEPT ![j] =
                  [@ EXCEPT !.pc = "createUploadUrl",
                            !.calls = Append(@, "createUploadUrl"),
                            !.urlConv = UploadUrlConversation(conversationId, @.conv)]]
  /\ last' = Event("repoPrepared", j, "", FALSE, << >>)
  /\ UNCHANGED <<objs, session, sends, accepts>>

\* line 53 is assigned and line 55 calls uploadCode
SetupUploadUrlCreated(j) ==
  /\ setups[j].pc = "createUploadUrl"
  /\ uploadId' = j
  /\ setups' = [setups EXCEPT ![j] = [@ EXCEPT !.pc = "uploadCode",
                                               !.calls = Append(@, "uploadCode")]]
  /\ last' = Event("uploadUrlCreated", j, "", FALSE, << >>)
  /\ UNCHANGED <<objs, state, task, approach, conversationId, approachRetries,
                 codeGenRetries, sends, accepts>>

\* a new conversation starting with the retry counters at their limits
MutSetupUploadedResetsRetries(j) ==
  /\ setups[j].pc = "uploadCode"
  /\ setups' = [setups EXCEPT ![j] = DoneSetup]
  /\ LET cfg == [conversationId |-> conversationId, uploadId |-> uploadId]
         n == Fresh(objs)
     IN /\ objs' = Collect([objs EXCEPT ![n] = NewState("Refinement",
                              cfg.conversationId, cfg.uploadId, "")], n, sends)
        /\ state' = n
        /\ last' = Event("setupReturn", j, "", objs[state].cancelled,
                         setups[j].calls)
  /\ approachRetries' = approachRetryLimit
  /\ codeGenRetries' = codeGenRetryLimit
  /\ UNCHANGED <<task, approach, conversationId, uploadId, sends, accepts>>

\* lines 56-63 after the upload: the Refinement state is constructed and
\* installed, unless a getter throws
SetupUploaded(j) ==
  /\ setups[j].pc = "uploadCode"
  /\ setups' = [setups EXCEPT ![j] = DoneSetup]
  /\ LET cfg == getSessionStateConfig(conversationId, uploadId)
         n == Fresh(objs)
     IN IF cfg.err # ""
        THEN /\ last' = Event("setupFailed", j, cfg.err, FALSE, setups[j].calls)
             /\ UNCHANGED <<objs, state>>
        ELSE /\ objs' = Collect([objs EXCEPT ![n] = NewState("Refinement",
                                   cfg.conversationId, cfg.uploadId, "")], n, sends)
             /\ state' = n
             /\ last' = Event("setupReturn", j, "", objs[state].cancelled,
                              setups[j].calls)
  /\ UNCHANGED <<task, approach, conversationId, uploadId, approachRetries,
                 codeGenRetries, sends, accepts>>

\* a rejection handled by forgetting what the call had obtained
MutSetupThrowsForgetsIds(j) ==
  /\ setups[j].pc \in {"createConversation", "prepareRepoData", "createUploadUrl",
                       "uploadCode"}
  /\ setups' = [setups EXCEPT ![j] = DoneSetup]
  /\ conversationId' = 0
  /\ uploadId' = 0
  /\ last' = Event("setupFailed", j, "rejected", FALSE, setups[j].calls)
  /\ UNCHANGED <<objs, state, task, approach, approachRetries, codeGenRetries,
                 sends, accepts>>

\* an awaited step of setupConversation rejects
SetupThrows(j) ==
  /\ setups[j].pc \in {"createConversation", "prepareRepoData", "createUploadUrl",
                       "uploadCode"}
  /\ setups' = [setups EXCEPT ![j] = DoneSetup]
  /\ last' = Event("setupFailed", j, "rejected", FALSE, setups[j].calls)
  /\ UNCHANGED <<objs, session, sends, accepts>>

\* initCodegen
InitCodegen ==
  /\ LET cfg == getSessionStateConfig(conversationId, uploadId)
         n == Fresh(objs)
     IN IF cfg.err # ""
        THEN /\ last' = Event("initCodegen", 0, cfg.err, FALSE, << >>)
             /\ UNCHANGED <<objs, state>>
        ELSE /\ objs' = Collect([objs EXCEPT ![n] = NewState("CodeGen",
                                   cfg.conversationId, cfg.uploadId, approach)], n, sends)
             /\ state' = n
             /\ last' = Event("initCodegen", 0, "", objs[state].cancelled, << >>)
  /\ UNCHANGED <<task, approach, conversationId, uploadId, approachRetries,
                 codeGenRetries, sends, setups, accepts>>

(***************************************************************************)
(* retries                                                                 *)
(***************************************************************************)
\* decreaseRetries falling through to approachRetries as the getter
\* retries does
MutDecreasesApproachByDefault(phase, a, c) ==
  CASE phase = "Codegen" -> <<a, c - 1>>
    [] OTHER -> <<a - 1, c>>

\* decreaseRetries: the counters after the call
DecreasedRetries(phase, a, c) ==
  CASE phase = "Approach" -> <<a - 1, c>>
    [] phase = "Codegen" -> <<a, c - 1>>
    [] OTHER -> <<a, c>>

Decreases == (approachRetryLimit - approachRetries) + (codeGenRetryLimit - codeGenRetries)

decreaseRetries ==
  /\ Decreases < MaxDecreases
  /\ LET r == DecreasedRetries(objs[state].phase, approachRetries, codeGenRetries) IN
       /\ approachRetries' = r[1]
       /\ codeGenRetries' = r[2]
  /\ last' = Event("decreaseRetries", 0, "", FALSE, << >>)
  /\ UNCHANGED <<objs, state, task, approach, conversationId, uploadId,
                 sends, setups, accepts>>

\* the getter reporting approachRetries whatever the phase
MutRetriesIgnoresPhase(phase, a, c) == a

\* get retries, lines 149-158: the value returned
retries(phase, a, c) ==
  CASE phase = "Approach" -> a
    [] phase = "Codegen" -> c
    [] OTHER -> a

\* the getter is read
GetRetries ==
  /\ last' = Event("retries", 0, "", FALSE,
                   retries(objs[state].phase, approachRetries, codeGenRetries))
  /\ UNCHANGED <<objs, session, sends, setups, accepts>>

(***************************************************************************)
(* acceptChanges                                                           *)
(***************************************************************************)
MutAbsoluteAsGiven(filePath) == filePath

\* line 131
AbsolutePath(filePath) ==
  IF isAbsolute(filePath) THEN filePath ELSE join(workspaceRoot, filePath)

DiskOp(op, path, content) == [op |-> op, path |-> path, content |-> content]

\* lines 133-138 for one file: the calls made on the disk, in order, up to
\* the one that rejects ("" when none does)
WriteFileOps(filePath, rejects) ==
  LET content == TextDecode(VfsBytes(filePath))
      absolutePath == AbsolutePath(filePath)
  IN CASE rejects = "readFile" -> << >>
       [] rejects = "mkdir" -> <<DiskOp("mkdir", dirname(absolutePath), << >>)>>
       [] OTHER -> <<DiskOp("mkdir", dirname(absolutePath), << >>),
                     DiskOp("writeFile", absolutePath, content)>>

\* acceptChanges up to the first await: the list is read off the state
\* that is current now; with no file in it the call returns
AcceptStart(k) ==
  /\ CanStart(accepts, k)
  /\ LET ps == FilePathsOf(objs[state]) IN
       IF ps = << >>
       THEN /\ last' = Event("acceptReturn", k, "", FALSE, [paths |-> ps, log |-> << >>])
            /\ accepts' = [accepts EXCEPT ![k] = DoneAccept]
       ELSE /\ last' = Event("acceptChanges", k, "", FALSE, << >>)
            /\ accepts' = [accepts EXCEPT ![k] = [pc |-> "file", paths |-> ps, i |-> 1,
                                                  log |-> << >>]]
  /\ UNCHANGED <<objs, session, sends, setups>>

\* one pass of the loop body.  Its three awaits touch no field of the
\* session and no state object, so the pass is one step.
AcceptFile(k) ==
  /\ accepts[k].pc = "file"
  /\ LET c == accepts[k]
         log == c.log \o WriteFileOps(c.paths[c.i], "")
     IN IF c.i = Len(c.paths)
        THEN /\ accepts' = [accepts EXCEPT ![k] = DoneAccept]
             /\ last' = Event("acceptReturn", k, "", FALSE,
                              [paths |-> c.paths, log |-> log])
        ELSE /\ accepts' = [accepts EXCEPT ![k] = [c EXCEPT !.i = c.i + 1, !.log = log]]
             /\ last' = Event("acceptFile", k, "", FALSE, << >>)
  /\ UNCHANGED <<objs, session, sends, setups>>

\* readFile, mkdir or writeFile rejects, and acceptChanges with it
AcceptThrows(k) ==
  /\ accepts[k].pc = "file"
  /\ \E rejects \in {"readFile", "mkdir", "writeFile"} :
       LET c == accepts[k] IN
         last' = Event("acceptFailed", k, "rejected", FALSE,
                       [paths |-> c.paths,
                        log |-> c.log \o WriteFileOps(c.paths[c.i], rejects)])
  /\ accepts' = [accepts EXCEPT ![k] = DoneAccept]
  /\ UNCHANGED <<objs, session, sends, setups>>

(***************************************************************************)
(* The specifications.  Calls(msgs, slots) is the session's phase          *)
(* machinery: send with a message of msgs, setupConversation called as     *)
(* often as there are slots, and initCodegen, the asynchronous calls       *)
(* overlapping.  What else happens around it - the approach being answered *)
(* and edited, file paths being generated and accepted, retries being      *)
(* counted - multiplies the states without touching one another, so each   *)
(* is put beside the phase machinery in a specification of its own.  Only  *)
(* the specification of the phases needs setupConversation called twice.   *)
(***************************************************************************)
Calls(msgs, slots) ==
  \/ \E i \in SendSlots : \E msg \in msgs : SendStart(i, msg)
  \/ \E i \in SendSlots : InteractStart(i)
  \/ \E i \in SendSlots : InteractReturnsSame(i)
  \/ \E i \in SendSlots : InteractReturnsNext(i)
  \/ \E i \in SendSlots : SendThrows(i)
  \/ \E i \in SendSlots : SendResume(i)
  \/ \E j \in slots : SetupStart(j)
  \/ \E j \in slots : SetupConversationCreated(j)
  \/ \E j \in slots : SetupRepoPrepared(j)
  \/ \E j \in slots : SetupUploadUrlCreated(j)
  \/ \E j \in slots : SetupUploaded(j)
  \/ \E j \in slots : SetupThrows(j)
  \/ InitCodegen

ApproachSteps ==
  \/ \E i \in SendSlots : InteractAnswers(i)
  \/ \E a \in Edits : EditApproach(a)

AcceptSteps ==
  \/ \E i \in SendSlots : InteractWritesPaths(i)
  \/ \E k \in AcceptSlots : AcceptStart(k)
  \/ \E k \in AcceptSlots : AcceptFile(k)
  \/ \E k \in AcceptSlots : AcceptThrows(k)

\* setupConversation called once
OneSetup == {j \in SetupSlots : \A h \in SetupSlots : j <= h}

\* the phases, their cancellation and the identifiers
NextPhases == Calls({"m1"}, SetupSlots)
SpecPhases == Init /\ [][NextPhases]_vars

\* the task
NextTask == Calls(Msgs, OneSetup)
SpecTask == Init /\ [][NextTask]_vars

\* the approach
NextApproach == Calls({"m1"}, OneSetup) \/ ApproachSteps
SpecApproach == Init /\ [][NextApproach]_vars

\* the retry counters
NextRetries == Calls({"m1"}, OneSetup) \/ decreaseRetries \/ GetRetries
SpecRetries == Init /\ [][NextRetries]_vars

\* the accepted files
NextAccept == Calls({"m1"}, OneSetup) \/ AcceptSteps
SpecAccept == Init /\ [][NextAccept]_vars

\* the retry counters beside every operation of the session
NextCounters == Calls({"m1"}, OneSetup) \/ AcceptSteps \/ decreaseRetries
SpecCounters == Init /\ [][NextCounters]_vars

\* everything at once
Next == Calls(Msgs, SetupSlots) \/ ApproachSteps \/ AcceptSteps \/ decreaseRetries
          \/ GetRetries
Spec == Init /\ [][Next]_vars

(***************************************************************************)
(* The claims                                                              *)
(***************************************************************************)
\* C1: when a send's response carries a nextState, the token source of the
\* state being left is cancelled and not that of the successor, and when
\* send returns the successor is the current state.
C1_CancelThenInstall ==
  [][last'.op = "sendReturnNext" =>
       /\ state' = sends[last'.call].next
       /\ state' # state
       /\ last'.leftCancelled
       /\ objs'[state] # Free => objs'[state].cancelled
       /\ ~objs'[state'].cancelled]_vars

C1_Witness ==
  /\ last.op = "sendReturnNext"
  /\ last.leftCancelled
  /\ objs[state].kind = "CodeGen"
  /\ ~objs[state].cancelled

\* C2: on a transition the successor's approach and the session's approach
\* both become the approach the state being left holds when send resumes,
\* whatever the successor was constructed with.
C2_ApproachPropagated ==
  [][last'.op = "sendReturnNext" =>
       /\ objs'[state'].approach = objs[state].approach
       /\ approach' = objs[state].approach]_vars

C2_Witness ==
  /\ last.op = "sendReturnNext"
  /\ approach = "p2"
  /\ objs[state].approach = "p2"

\* C3: at most one interact is in flight at any time.
C3_OneInteractionInFlight ==
  Cardinality({i \in SendSlots : sends[i].pc = "interact"}) <= 1

Rank(kind) ==
  CASE kind = "ConversationNotStarted" -> 0
    [] kind = "Refinement" -> 1
    [] OTHER -> 2

\* C4: the class of the current state only moves forward in the order
\* ConversationNotStarted, Refinement, CodeGen.
C4_PhasesOnlyForward ==
  [][Rank(objs'[state'].kind) >= Rank(objs[state].kind)]_vars

\* C5: whenever the current state is replaced, the token source of the
\* replaced state has been cancelled.
C5_ReplacedStateCancelled ==
  [][state' # state => last'.leftCancelled]_vars

\* C6: decreaseRetries takes one off the counter of the current state's
\* phase and leaves the other counter, the state, the task, the approach
\* and the identifiers alone.
C6_DecreaseRetries ==
  [][last'.op = "decreaseRetries" =>
       /\ objs[state].phase = "Approach" =>
            approachRetries' = approachRetries - 1 /\ codeGenRetries' = codeGenRetries
       /\ objs[state].phase = "Codegen" =>
            codeGenRetries' = codeGenRetries - 1 /\ approachRetries' = approachRetries
       /\ objs[state].phase \notin {"Approach", "Codegen"} =>
            approachRetries' = approachRetries /\ codeGenRetries' = codeGenRetries
       /\ UNCHANGED <<objs, state, task, approach, conversationId, uploadId>>]_vars

C6_Witness ==
  /\ last.op = "decreaseRetries"
  /\ approachRetries = approachRetryLimit - 1
  /\ codeGenRetries = codeGenRetryLimit - 1

SetupOrder == <<"createConversation", "createUploadUrl", "uploadCode">>

IsPrefix(s, t) == Len(s) <= Len(t) /\ s = SubSeq(t, 1, Len(s))

\* what C7 says of the order of the calls and of the installed state
C7_OrderAndInstall ==
  /\ \A j \in SetupSlots : IsPrefix(setups'[j].calls, SetupOrder)
  /\ \A j \in SetupSlots :
       (setups'[j] # setups[j] /\ last'.op # "setupReturn") => state' = state
  /\ last'.op = "setupReturn" =>
       /\ last'.result = SetupOrder
       /\ objs'[state'].kind = "Refinement"
       /\ objs'[state'].approach = ""
       /\ conversationId' # 0
       /\ uploadId' # 0
       /\ objs'[state'].conversationId = conversationId'
       /\ objs'[state'].uploadId = uploadId'

CallsUploadUrl(j) ==
  setups[j].pc = "prepareRepoData" /\ setups'[j].pc = "createUploadUrl"

\* C7 as stated: the calls are made in the order create conversation,
\* create upload URL with the conversation id this call has just obtained,
\* upload, and then the Refinement state with an empty approach and the
\* session's two identifiers is installed.
C7_AsStated ==
  [][/\ C7_OrderAndInstall
     /\ \A j \in SetupSlots : CallsUploadUrl(j) => setups'[j].urlConv = setups[j].conv]_vars

\* C7 amended: the upload URL is created for the conversation id the
\* session holds when the call is made.
C7_SetupConversation ==
  [][/\ C7_OrderAndInstall
     /\ \A j \in SetupSlots : CallsUploadUrl(j) => setups'[j].urlConv = conversationId]_vars

C7_Witness ==
  /\ last.op = "setupReturn"
  /\ objs[state].kind = "Refinement"
  /\ objs[state].conversationId = 2
  /\ objs[state].uploadId = 1

\* C8: a send sets the task to its message only while the task is empty;
\* no other step changes the task; interact is handed the task.
C8_TaskFixedByFirstMessage ==
  [][/\ last'.op = "send" =>
          task' = (IF task = "" THEN last'.result ELSE task)
     /\ last'.op # "send" => task' = task
     /\ task # "" => task' = task
     /\ last'.op = "interact" => last'.result.task = task]_vars

C8_Witness ==
  /\ last.op = "interact"
  /\ last.result.msg = "m2"
  /\ last.result.task = "m1"

Dir(segs) == [op |-> "mkdir", path |-> [abs |-> TRUE, segs |-> segs], content |-> << >>]
File(segs, text) == [op |-> "writeFile", path |-> [abs |-> TRUE, segs |-> segs],
                     content |-> text]

\* what accepting one file must do to the disk, spelt out per path
C9_Expected(p) ==
  CASE p = AbsB -> <<Dir(<<"out">>), File(<<"out", "b.ts">>, <<111, 65533>>)>>
    [] p = RelUp -> <<Dir(<<"ws">>), File(<<"ws", "c.ts">>, <<107>>)>>
    [] p = RelA -> <<Dir(<<"ws", "src">>), File(<<"ws", "src", "a.ts">>, <<104, 105>>)>>

RECURSIVE C9_ExpectedLog(_)
C9_ExpectedLog(paths) ==
  IF paths = << >> THEN << >>
  ELSE C9_Expected(Head(paths)) \o C9_ExpectedLog(Tail(paths))

AcceptOps == {"acceptChanges", "acceptFile", "acceptReturn", "acceptFailed"}

\* C9: acceptChanges makes, for the file paths of the state that is current
\* when it is called, in their order, the parent directory and then the
\* file with the decoded content, relative paths under the workspace root;
\* with no file paths it writes nothing; a call that throws has made a
\* prefix of these calls; no step of it changes the session or a state
\* object.
C9_AcceptChanges ==
  [][last'.op \in AcceptOps =>
       /\ UNCHANGED <<objs, session>>
       /\ \A k \in AcceptSlots :
            (accepts[k].pc = "idle" /\ accepts'[k].pc = "file") =>
               accepts'[k].paths = FilePathsOf(objs[state])
       /\ (last'.op = "acceptReturn" /\ accepts[last'.call].pc = "idle") =>
               last'.result = [paths |-> << >>, log |-> << >>]
                 /\ FilePathsOf(objs[state]) = << >>
       /\ last'.op = "acceptReturn" =>
               last'.result.log = C9_ExpectedLog(last'.result.paths)
       /\ last'.op = "acceptFailed" =>
               IsPrefix(last'.result.log, C9_ExpectedLog(last'.result.paths))]_vars

C9_Witness ==
  /\ last.op = "acceptReturn"
  /\ last.result.paths = <<AbsB, RelUp>>
  /\ Len(last.result.log) = 4

\* C10: a send whose response carries no nextState leaves the current
\* state, its token source, the session's approach, both counters and both
\* identifiers as they were; only its first step may set the task.
C10_NoNextStateChangesNothing ==
  [][last'.op \in {"send", "interact", "sendReturn"} =>
       /\ UNCHANGED <<state, approach, approachRetries, codeGenRetries,
                      conversationId, uploadId>>
       /\ objs'[state] = objs[state]
       /\ last'.op # "send" => task' = task]_vars

C10_Witness ==
  /\ last.op = "sendReturn"
  /\ objs[state].approach = "p1"
  /\ approach = ""
  /\ ~objs[state].cancelled

\* C11: when a send's response carries a nextState, the state object whose
\* token source is cancelled is the one interact was invoked on, whatever
\* replaced the current state while interact was awaited.
C11_CancelsInteractedState ==
  [][last'.op = "sendReturnNext" =>
       last'.result.cancelled = sends[last'.call].target]_vars

\* C12: the CodeGen state initCodegen creates is handed the approach of the
\* state it replaces.
C12_InitCodegenApproach ==
  [][(last'.op = "initCodegen" /\ last'.err = "") =>
       /\ objs'[state'].kind = "CodeGen"
       /\ objs'[state'].approach = objs[state].approach]_vars

\* C13: initCodegen called while the conversation id or the upload id is
\* not set throws, ConversationIdNotFoundError when it is the conversation
\* id that is missing, and leaves the current state, every state object and
\* every field of the session as they were.
C13_InitCodegenWithoutIds ==
  [][(last'.op = "initCodegen" /\ (conversationId = 0 \/ uploadId = 0)) =>
       /\ last'.err # ""
       /\ conversationId = 0 => last'.err = "ConversationIdNotFoundError"
       /\ UNCHANGED <<objs, session>>
       /\ objs[state].kind # "CodeGen" => objs'[state'].kind # "CodeGen"]_vars

C13_Witness ==
  /\ last.op = "initCodegen"
  /\ last.err = "UploadId should be initialized before it's read"
  /\ conversationId # 0
  /\ uploadId = 0
  /\ \E j \in SetupSlots : setups[j].pc = "createUploadUrl"

SetupFailedAt(pcs) == last'.op = "setupFailed" /\ setups[last'.call].pc \in pcs

\* C14: a setupConversation that fails at any of its steps leaves the
\* current state and every state object as they were and the identifiers
\* obtained before the failing step set; the current state becomes a
\* Refinement state only when a setupConversation returns or a send installs
\* the nextState of a response.
C14_SetupFailure ==
  [][/\ last'.op = "setupFailed" =>
          /\ last'.err # ""
          /\ UNCHANGED <<objs, session>>
     /\ SetupFailedAt({"prepareRepoData", "createUploadUrl", "uploadCode"}) =>
          conversationId' # 0
     /\ SetupFailedAt({"uploadCode"}) => uploadId' # 0
     /\ (state' # state /\ objs'[state'].kind = "Refinement") =>
          last'.op \in {"setupReturn", "sendReturnNext"}
     /\ last'.op = "setupReturn" => last'.result = SetupOrder]_vars

C14_Witness ==
  /\ last.op = "setupFailed"
  /\ last.result = SetupOrder
  /\ objs[state].kind = "ConversationNotStarted"
  /\ conversationId # 0
  /\ uploadId # 0

\* C15: the getter retries returns codeGenRetries when the current state's
\* phase is Codegen and approachRetries when it is Approach or when the
\* state has no phase, and reading it changes no field of the session and
\* no state object.
C15_RetriesGetter ==
  [][last'.op = "retries" =>
       /\ objs[state].phase = "Codegen" => last'.result = codeGenRetries
       /\ objs[state].phase # "Codegen" => last'.result = approachRetries
       /\ objs[state].kind = "ConversationNotStarted" => objs[state].phase = "None"
       /\ UNCHANGED <<objs, session>>]_vars

C15_Witness ==
  /\ last.op = "retries"
  /\ objs[state].phase = "Codegen"
  /\ last.result = codeGenRetries
  /\ codeGenRetries < approachRetries

\* C16: both retry counters are never negative.
C16_CountersNonNegative ==
  approachRetries >= 0 /\ codeGenRetries >= 0

CountersAtLimits ==
  approachRetries = approachRetryLimit /\ codeGenRetries = codeGenRetryLimit

CountersStep ==
  /\ approachRetries' <= approachRetries
  /\ codeGenRetries' <= codeGenRetries
  /\ last'.op # "decreaseRetries" => UNCHANGED <<approachRetries, codeGenRetries>>

\* C17: each retry counter starts at its limit and never grows, and no step
\* of setupConversation, initCodegen, send or acceptChanges changes either
\* counter: only decreaseRetries does.
C17_CountersNeverReplenished == CountersAtLimits /\ [][CountersStep]_vars

C17_Witness ==
  /\ last.op = "setupReturn"
  /\ objs[state].kind = "Refinement"
  /\ approachRetries < approachRetryLimit
  /\ codeGenRetries < codeGenRetryLimit

==========================================================================
